---- MODULE Spec2Model ----
(***************************************************************************)
(* Purchase-order / payment ledger of the vendor payment API.              *)
(*                                                                         *)
(* The model follows PurchaseOrdersService and PaymentsService statement   *)
(* by statement.  Every `await` on the database is one step of a request,  *)
(* so requests of different workers interleave exactly where the event     *)
(* loop lets them.  The store is a transactional relational store with     *)
(* read-committed isolation: a write through queryRunner.manager is        *)
(* pending until commitTransaction, a write through an injected            *)
(* Repository is committed at once on its own connection.                  *)
(*                                                                         *)
(* Money is counted in cents (the columns are decimal(15,2)); the products *)
(* with the two percentages are kept exactly, in 1/10000 of a cent, and    *)
(* toFixed(2) rounds them half away from zero.                             *)
(***************************************************************************)
EXTENDS Integers, Sequences, FiniteSets, TLC

VARIABLES now, pos, payments, procs

vars == <<now, pos, payments, procs>>

-----------------------------------------------------------------------------
(* Bounds of the model *)

NProcs == 2
MaxPo == 2
MaxItems == 2
MaxPayments == 2
MaxNow == 1

Procs == 1..NProcs
PoIds == 1..MaxPo
PaymentIds == 1..MaxPayments
ItemIds == 1..MaxItems

-----------------------------------------------------------------------------
(* Enumerations: src/src/common/enums/index.ts *)

PENDING == "Pending"
APPROVED == "Approved"
PARTIALLY_PAID == "Partially Paid"
PAID == "Paid"
OVERDUE == "Overdue"
CANCELLED == "Cancelled"

PurchaseOrderStatus == {PENDING, APPROVED, PARTIALLY_PAID, PAID, OVERDUE, CANCELLED}

COMPLETED == "Completed"
VOIDED == "Voided"

ACTIVE == "Active"
INACTIVE == "Inactive"

NET_15 == 15
IMMEDIATE == 0
ADVANCE == -7

\* What a DTO field holds when the caller left it out (undefined): a text
\* field holds Absent, an amount holds NoAmount.
Absent == "absent"
NoAmount == 0 - 1

-----------------------------------------------------------------------------
(* Time.  DayLen timestamps make a day; a `date` column holds midnight. *)

DayLen == 1

DateOf(t) == (t \div DayLen) * DayLen

\* calculateDueDate: daysMap[paymentTerms] days after poDate, stored as a date.
daysMap(paymentTerms) ==
    CASE paymentTerms = NET_15 -> 15
      [] paymentTerms = IMMEDIATE -> 0
      [] paymentTerms = ADVANCE -> -7

calculateDueDate(poDate, paymentTerms) ==
    DateOf(poDate) + daysMap(paymentTerms) * DayLen

-----------------------------------------------------------------------------
(* Vendors: read-only collaborators. *)

VendorIds == {"v_immediate", "v_advance", "v_inactive", "v_missing"}

Vendors ==
    [v \in {"v_immediate", "v_advance", "v_inactive"} |->
        CASE v = "v_immediate" -> [status |-> ACTIVE, paymentTerms |-> IMMEDIATE]
          [] v = "v_advance" -> [status |-> ACTIVE, paymentTerms |-> ADVANCE]
          [] v = "v_inactive" -> [status |-> INACTIVE, paymentTerms |-> NET_15]]

-----------------------------------------------------------------------------
(* Money *)

Scale == 100 * 100

\* Number(x.toFixed(2)) of an exact amount x given in 1/Scale cents.
toFixed2(x) ==
    IF x >= 0 THEN (x + Scale \div 2) \div Scale
    ELSE -(((-x) + Scale \div 2) \div Scale)

Max(a, b) == IF a >= b THEN a ELSE b

\* The line items a caller may submit (CreatePurchaseOrderItemDto):
\* quantity >= 1, unitPrice > 0 in cents, the two percentages >= 0 with no
\* upper limit.
ItemDtos ==
    { [quantity |-> 1, unitPrice |-> 10, taxRate |-> 0, discountPercent |-> 0],
      [quantity |-> 1, unitPrice |-> 5, taxRate |-> 0, discountPercent |-> 10] }

itemSubtotal(item) == item.quantity * item.unitPrice * Scale
itemDiscount(item) == item.quantity * item.unitPrice * item.discountPercent * 100
itemTax(item) ==
    (item.quantity * item.unitPrice * 100
       - item.quantity * item.unitPrice * item.discountPercent) * item.taxRate

\* calculateItemTotal
calculateItemTotal(item) ==
    toFixed2(itemSubtotal(item) - itemDiscount(item) + itemTax(item))

RECURSIVE SumOver(_, _)
SumOver(S, f) ==
    IF S = {} THEN 0
    ELSE LET x == CHOOSE y \in S : TRUE
         IN f[x] + SumOver(S \ {x}, f)

\* The three running sums of create() and recalculateTotals() over a set of
\* item rows.
SumSubtotal(items) == SumOver(items, [i \in items |-> itemSubtotal(i)])
SumDiscount(items) == SumOver(items, [i \in items |-> itemDiscount(i)])
SumTax(items) == SumOver(items, [i \in items |-> itemTax(i)])

-----------------------------------------------------------------------------
(* Reference numbers: <PREFIX>-<YYYYMMDD>-<NNN>.  A number is kept as the   *)
(* pair of its day and its sequence; the text of the sequence matters where *)
(* the code orders the references as strings.                               *)

RECURSIVE Digits(_)
Digits(n) == IF n < 10 THEN <<n>> ELSE Append(Digits(n \div 10), n % 10)

\* sequence.toString().padStart(3, '0')
padStart3(n) ==
    LET d == Digits(n)
    IN IF Len(d) >= 3 THEN d
       ELSE [i \in 1..3 |-> IF i <= 3 - Len(d) THEN 0 ELSE d[i - (3 - Len(d))]]

\* String order of two digit texts (ORDER BY ... DESC compares the texts).
RECURSIVE StrLess(_, _)
StrLess(a, b) ==
    IF a = <<>> THEN b # <<>>
    ELSE IF b = <<>> THEN FALSE
    ELSE IF a[1] # b[1] THEN a[1] < b[1]
    ELSE StrLess(Tail(a), Tail(b))

\* The sequence the two generators hand out, from the sequences `seqs` found
\* with today's prefix: 1 when there is none, else the one after the latest
\* in string order.
nextSequence(seqs) ==
    IF seqs = {} THEN 1
    ELSE LET latest == CHOOSE s \in seqs :
                 \A t \in seqs : t = s \/ StrLess(padStart3(t), padStart3(s))
         IN latest + 1

DayOf(t) == t \div DayLen

-----------------------------------------------------------------------------
(* Rows and requests *)

NoSnap == [none |-> TRUE]

Idle == [pc |-> "idle", po |-> 0, pay |-> 0, amount |-> 0, ref |-> 0,
         snap |-> NoSnap, arg |-> NoSnap]

\* What a call answers when nothing stops it.
OK == "ok"

\* The rows a reader on another connection sees (read committed; findOne
\* and the query builders leave out soft-deleted rows).
Committed(id) == id \in DOMAIN pos /\ pos[id].tx = 0
Visible(id) == Committed(id) /\ ~pos[id].deleted

PaymentVisible(id) == id \in DOMAIN payments /\ ~payments[id].fresh

FreeId(used, ids) == CHOOSE i \in ids \ used : \A j \in ids \ used : i <= j

\* save(entity) of a loaded purchase order writes the entity's columns over
\* the row; the items are rows of their own table.
SaveRow(id, entity) == [pos EXCEPT ![id] = [entity EXCEPT !.items = pos[id].items,
                                                          !.deleted = pos[id].deleted]]

Init ==
    /\ now = 0
    /\ pos = <<>>
    /\ payments = <<>>
    /\ procs = [p \in Procs |-> Idle]

\* The clock moves on between any two steps.
Tick ==
    /\ now < MaxNow
    /\ now' = now + 1
    /\ UNCHANGED <<pos, payments, procs>>

\* Workers are interchangeable request slots: a new call is taken by the
\* lowest-numbered free one.
IsIdle(p) ==
    /\ procs[p].pc = "idle"
    /\ \A q \in Procs : q < p => procs[q].pc # "idle"

\* A rollback that also drops the rows the transaction was updating.
RolledBackPaymentsDropping(p) ==
    [i \in {j \in DOMAIN payments : payments[j].lock # p} |-> payments[i]]

\* Undo of the pending writes of p's transaction (rollbackTransaction).
RolledBackPayments(p) ==
    LET keep == {i \in DOMAIN payments : ~(payments[i].fresh /\ payments[i].lock = p)}
    IN [i \in keep |-> IF payments[i].lock = p
                        THEN [payments[i] EXCEPT !.lock = 0] ELSE payments[i]]

\* A rollback that leaves the pending rows in place, committed.
RolledBackPosKeeping(p) ==
    [i \in DOMAIN pos |-> IF pos[i].tx = p THEN [pos[i] EXCEPT !.tx = 0] ELSE pos[i]]

RolledBackPos(p) ==
    [i \in {j \in DOMAIN pos : pos[j].tx # p} |-> pos[i]]

\* The worker goes on to its next database call.
Goto(p, next) == procs' = [procs EXCEPT ![p] = next]

\* The call returns or throws: the worker is free again.
Done(p) == procs' = [procs EXCEPT ![p] = Idle]

-----------------------------------------------------------------------------
(* PurchaseOrdersService.create *)

TaxOverrides == {NoAmount, 2}
DiscountOverrides == {NoAmount, 20}

CreateItemLists ==
    UNION { [1..n -> ItemDtos] : n \in 1..MaxItems }

CreateDtos ==
    [vendorId : VendorIds, items : CreateItemLists,
     taxAmount : TaxOverrides, discountAmount : DiscountOverrides]

\* The item entities create() builds, in the order of the DTO.
ItemRows(items) ==
    { [id |-> i, quantity |-> items[i].quantity, unitPrice |-> items[i].unitPrice,
       taxRate |-> items[i].taxRate, discountPercent |-> items[i].discountPercent,
       totalPrice |-> calculateItemTotal(items[i])] : i \in 1..Len(items) }

\* The purchase order create() builds from its DTO.
NewPurchaseOrder(p, dto, poNumber, poDate) ==
    LET rows == ItemRows(dto.items)
        subtotal == SumSubtotal(rows)
        finalTax == IF dto.taxAmount # NoAmount THEN dto.taxAmount
                    ELSE toFixed2(SumTax(rows))
        finalDiscount == IF dto.discountAmount # NoAmount THEN dto.discountAmount
                         ELSE toFixed2(SumDiscount(rows))
        totalAmount == toFixed2(subtotal - finalDiscount * Scale + finalTax * Scale)
    IN [tx |-> p, deleted |-> FALSE, poNumber |-> poNumber,
        dueDate |-> calculateDueDate(poDate, Vendors[dto.vendorId].paymentTerms),
        totalAmount |-> totalAmount, paidAmount |-> 0,
        outstandingAmount |-> totalAmount, taxAmount |-> finalTax,
        discountAmount |-> finalDiscount, subtotal |-> toFixed2(subtotal),
        status |-> PENDING, notes |-> Absent, items |-> rows]

CreatingProcs == {q \in Procs : procs[q].pc \in {"create_number", "create_save"}}

\* The vendor checks of create() without the one on the vendor's status.
createRefusalOnlyMissing(dto) ==
    IF dto.vendorId \notin DOMAIN Vendors THEN "VendorNotFound" ELSE OK

\* What create() answers before it starts its transaction.
createRefusal(dto) ==
    IF dto.vendorId \notin DOMAIN Vendors THEN "VendorNotFound"
    ELSE IF Vendors[dto.vendorId].status # ACTIVE THEN "VendorInactive"
    ELSE OK

\* The vendor checks; then the transaction is started.
CreateCall(p, dto) ==
    /\ IsIdle(p)
    /\ Cardinality(DOMAIN pos) + Cardinality(CreatingProcs) < MaxPo
    /\ createRefusal(dto) = OK
    /\ Goto(p, [Idle EXCEPT !.pc = "create_number", !.arg = dto])
    /\ UNCHANGED <<now, pos, payments>>

\* create() on an empty store with no other create under way: the call of
\* a caller who orders once.
FirstCreate(p, dto) ==
    /\ DOMAIN pos = {}
    /\ CreatingProcs = {}
    /\ CreateCall(p, dto)

\* generatePoNumber: the latest number with today's prefix, read through
\* the repository (committed rows that are not soft-deleted).
generatePoNumber ==
    LET day == DayOf(now)
        seqs == { pos[i].poNumber[2] : i \in {j \in DOMAIN pos :
                      Visible(j) /\ pos[j].poNumber[1] = day} }
    IN <<day, nextSequence(seqs)>>

\* generatePoNumber, then poDate = new Date().
CreateNumber(p) ==
    /\ procs[p].pc = "create_number"
    /\ Goto(p, [procs[p] EXCEPT !.pc = "create_save", !.ref = generatePoNumber,
                                !.snap = [poDate |-> now]])
    /\ UNCHANGED <<now, pos, payments>>

\* The rows that make an insert of poNumber wait (pending in another
\* transaction) or fail (committed, soft-deleted or not).
PoNumberPending(p, n) ==
    \E i \in DOMAIN pos : pos[i].poNumber = n /\ pos[i].tx \notin {0, p}
PoNumberTaken(n) ==
    \E i \in DOMAIN pos : pos[i].poNumber = n /\ pos[i].tx = 0

\* queryRunner.manager.save of the purchase order and of each item.
CreateSave(p) ==
    /\ procs[p].pc = "create_save"
    /\ ~PoNumberPending(p, procs[p].ref)
    /\ IF PoNumberTaken(procs[p].ref)
       THEN /\ Done(p)
            /\ UNCHANGED <<now, pos, payments>>
       ELSE LET id == FreeId(DOMAIN pos, PoIds)
                po == NewPurchaseOrder(p, procs[p].arg, procs[p].ref,
                                       procs[p].snap.poDate)
            IN /\ pos' = [i \in DOMAIN pos \cup {id} |->
                             IF i = id THEN po ELSE pos[i]]
               /\ Goto(p, [procs[p] EXCEPT !.pc = "create_commit", !.po = id,
                                           !.arg = NoSnap, !.snap = NoSnap,
                                           !.ref = 0])
               /\ UNCHANGED <<now, payments>>

\* queryRunner.manager.save(purchaseOrder): the row of the purchase order
\* alone, pending in p's transaction.  (CreateSave is this step and the
\* saves of all the lines taken at once.)
CreateSavePo(p) ==
    /\ procs[p].pc = "create_save"
    /\ ~PoNumberPending(p, procs[p].ref)
    /\ IF PoNumberTaken(procs[p].ref)
       THEN /\ Done(p)
            /\ UNCHANGED <<now, pos, payments>>
       ELSE LET id == FreeId(DOMAIN pos, PoIds)
                po == NewPurchaseOrder(p, procs[p].arg, procs[p].ref,
                                       procs[p].snap.poDate)
            IN /\ pos' = [i \in DOMAIN pos \cup {id} |->
                             IF i = id THEN [po EXCEPT !.items = {}] ELSE pos[i]]
               /\ Goto(p, [procs[p] EXCEPT !.pc = "create_items", !.po = id,
                                           !.snap = NoSnap, !.ref = 0])
               /\ UNCHANGED <<now, payments>>

\* queryRunner.manager.save(item) of the next line, in the order of the
\* body; after the last one the transaction is ready to commit.
CreateSaveItem(p) ==
    /\ procs[p].pc = "create_items"
    /\ LET id == procs[p].po
           n == Cardinality(pos[id].items) + 1
           row == CHOOSE r \in ItemRows(procs[p].arg.items) : r.id = n
       IN /\ pos' = [pos EXCEPT ![id].items = @ \cup {row}]
          /\ Goto(p, [procs[p] EXCEPT !.pc = IF n = Len(procs[p].arg.items)
                                             THEN "create_commit"
                                             ELSE "create_items"])
    /\ UNCHANGED <<now, payments>>

CreateCommit(p) ==
    /\ procs[p].pc = "create_commit"
    /\ pos' = [pos EXCEPT ![procs[p].po].tx = 0]
    /\ Done(p)
    /\ UNCHANGED <<now, payments>>

-----------------------------------------------------------------------------
(* PurchaseOrdersService.update and validateStatusTransition *)

\* The table with OVERDUE open to a direct status edit.
validTransitionsWithOverdue(currentStatus) ==
    CASE currentStatus = PENDING -> {APPROVED, CANCELLED, OVERDUE}
      [] currentStatus = APPROVED -> {PARTIALLY_PAID, PAID, CANCELLED, OVERDUE}
      [] currentStatus = PARTIALLY_PAID -> {PAID, CANCELLED, OVERDUE}
      [] currentStatus = PAID -> {}
      [] currentStatus = CANCELLED -> {}
      [] currentStatus = OVERDUE -> {PARTIALLY_PAID, PAID, CANCELLED}

\* The table with a paid purchase order still cancellable.
validTransitionsPaidCancellable(currentStatus) ==
    CASE currentStatus = PENDING -> {APPROVED, CANCELLED}
      [] currentStatus = APPROVED -> {PARTIALLY_PAID, PAID, CANCELLED}
      [] currentStatus = PARTIALLY_PAID -> {PAID, CANCELLED}
      [] currentStatus = PAID -> {CANCELLED}
      [] currentStatus = CANCELLED -> {}
      [] currentStatus = OVERDUE -> {PARTIALLY_PAID, PAID, CANCELLED}

validTransitions(currentStatus) ==
    CASE currentStatus = PENDING -> {APPROVED, CANCELLED}
      [] currentStatus = APPROVED -> {PARTIALLY_PAID, PAID, CANCELLED}
      [] currentStatus = PARTIALLY_PAID -> {PAID, CANCELLED}
      [] currentStatus = PAID -> {}
      [] currentStatus = CANCELLED -> {}
      [] currentStatus = OVERDUE -> {PARTIALLY_PAID, PAID, CANCELLED}

\* TRUE when validateStatusTransition throws.
validateStatusTransitionThrows(currentStatus, newStatus) ==
    newStatus \notin validTransitions(currentStatus)

NoUpdate == [status |-> Absent, taxAmount |-> NoAmount, discountAmount |-> NoAmount,
             notes |-> Absent]

\* The bodies a caller may send (UpdatePurchaseOrderDto).
UpdateDtos ==
    { [NoUpdate EXCEPT !.status = s] : s \in PurchaseOrderStatus }
      \cup { [NoUpdate EXCEPT !.taxAmount = 2],
             [NoUpdate EXCEPT !.discountAmount = 20],
             [NoUpdate EXCEPT !.notes = "note"],
             [NoUpdate EXCEPT !.notes = "note", !.status = APPROVED] }

\* Object.keys(updateDto).some(key => key !== 'notes')
OtherThanNotes(dto) ==
    dto.status # Absent \/ dto.taxAmount # NoAmount \/ dto.discountAmount # NoAmount

\* Object.assign(purchaseOrder, updateDto)
Assign(po, dto) ==
    [po EXCEPT !.status = IF dto.status # Absent THEN dto.status ELSE @,
               !.taxAmount = IF dto.taxAmount # NoAmount THEN dto.taxAmount ELSE @,
               !.discountAmount = IF dto.discountAmount # NoAmount
                                  THEN dto.discountAmount ELSE @,
               !.notes = IF dto.notes # Absent THEN dto.notes ELSE @]

\* The checks of update() without the one on PAID and CANCELLED.
updateRefusalTransitionOnly(id, dto) ==
    IF ~Visible(id) THEN "PoNotFound"
    ELSE IF dto.status # Absent
            /\ validateStatusTransitionThrows(pos[id].status, dto.status)
    THEN "InvalidStatusTransition"
    ELSE OK

\* What update() answers before it saves.
updateRefusal(id, dto) ==
    IF ~Visible(id) THEN "PoNotFound"
    ELSE IF dto.status # Absent
            /\ validateStatusTransitionThrows(pos[id].status, dto.status)
    THEN "InvalidStatusTransition"
    ELSE IF pos[id].status \in {PAID, CANCELLED} /\ OtherThanNotes(dto)
    THEN "ImmutableAfterTerminal"
    ELSE OK

UpdateCall(p, id, dto) ==
    /\ IsIdle(p)
    /\ updateRefusal(id, dto) = OK
    /\ Goto(p, [Idle EXCEPT !.pc = "update_save", !.po = id,
                            !.snap = Assign(pos[id], dto)])
    /\ UNCHANGED <<now, pos, payments>>

UpdateSave(p) ==
    /\ procs[p].pc = "update_save"
    /\ pos' = SaveRow(procs[p].po, procs[p].snap)
    /\ Done(p)
    /\ UNCHANGED <<now, payments>>

-----------------------------------------------------------------------------
(* PurchaseOrdersService.cancel, remove, markOverduePurchaseOrders *)

\* The checks of cancel() without the one on paidAmount.
cancelRefusalOnlyPaid(id) ==
    IF ~Visible(id) THEN "PoNotFound"
    ELSE IF pos[id].status = PAID THEN "CannotCancelPaid"
    ELSE OK

\* What cancel() answers before it saves.
cancelRefusal(id) ==
    IF ~Visible(id) THEN "PoNotFound"
    ELSE IF pos[id].status = PAID THEN "CannotCancelPaid"
    ELSE IF pos[id].paidAmount > 0 THEN "CannotCancelWithPayments"
    ELSE OK

CancelCall(p, id) ==
    /\ IsIdle(p)
    /\ cancelRefusal(id) = OK
    /\ Goto(p, [Idle EXCEPT !.pc = "cancel_save", !.po = id,
                            !.snap = [pos[id] EXCEPT !.status = CANCELLED]])
    /\ UNCHANGED <<now, pos, payments>>

CancelSave(p) ==
    /\ procs[p].pc = "cancel_save"
    /\ pos' = SaveRow(procs[p].po, procs[p].snap)
    /\ Done(p)
    /\ UNCHANGED <<now, payments>>

\* The checks of remove() without the one on paidAmount.
removeRefusalOnlyMissing(id) ==
    IF ~Visible(id) THEN "PoNotFound" ELSE OK

\* What remove() answers before it writes.
removeRefusal(id) ==
    IF ~Visible(id) THEN "PoNotFound"
    ELSE IF pos[id].paidAmount > 0 THEN "CannotDeleteWithPaymentHistory"
    ELSE OK

RemoveCall(p, id) ==
    /\ IsIdle(p)
    /\ removeRefusal(id) = OK
    /\ Goto(p, [Idle EXCEPT !.pc = "remove_save", !.po = id])
    /\ UNCHANGED <<now, pos, payments>>

\* softRemove sets the deletion date of the row and nothing else.
RemoveSave(p) ==
    /\ procs[p].pc = "remove_save"
    /\ pos' = [pos EXCEPT ![procs[p].po].deleted = TRUE]
    /\ Done(p)
    /\ UNCHANGED <<now, payments>>

\* The WHERE clause with OVERDUE among the statuses it takes.
SweepMatchesAlsoOverdue(po, today) ==
    /\ po.dueDate < today
    /\ po.status \in {PENDING, APPROVED, PARTIALLY_PAID, OVERDUE}
    /\ po.outstandingAmount > 0

\* The WHERE clause taking the purchase orders due today as well.
SweepMatchesDueToday(po, today) ==
    /\ po.dueDate <= today
    /\ po.status \in {PENDING, APPROVED, PARTIALLY_PAID}
    /\ po.outstandingAmount > 0

\* The WHERE clause of markOverduePurchaseOrders.
SweepMatches(po, today) ==
    /\ po.dueDate < today
    /\ po.status \in {PENDING, APPROVED, PARTIALLY_PAID}
    /\ po.outstandingAmount > 0

\* The rows the UPDATE of markOverduePurchaseOrders matches at `today`.
SweepHits(today) ==
    {i \in DOMAIN pos : Committed(i) /\ SweepMatches(pos[i], today)}

\* result.affected ?? 0: what markOverduePurchaseOrders returns at `today`.
SweepAffected(today) == Cardinality(SweepHits(today))

\* A sweep that also writes off what was paid.
SweepResettingPaid(p) ==
    /\ IsIdle(p)
    /\ pos' = [i \in DOMAIN pos |->
                 IF i \in SweepHits(now)
                 THEN [pos[i] EXCEPT !.status = OVERDUE, !.paidAmount = 0,
                                     !.outstandingAmount = pos[i].totalAmount]
                 ELSE pos[i]]
    /\ UNCHANGED <<now, payments, procs>>

\* markOverduePurchaseOrders: one UPDATE statement; it returns the number
\* of rows it changed.
Sweep(p) ==
    /\ IsIdle(p)
    /\ pos' = [i \in DOMAIN pos |->
                 IF i \in SweepHits(now) THEN [pos[i] EXCEPT !.status = OVERDUE]
                 ELSE pos[i]]
    /\ UNCHANGED <<now, payments, procs>>

-----------------------------------------------------------------------------
(* addItem, updateItem, removeItem and recalculateTotals *)

\* The status check of the item operations letting OVERDUE through.
ItemsLockedUnlessOverdue(po) ==
    po.status # PENDING /\ po.status # APPROVED /\ po.status # OVERDUE

ItemsLocked(po) == po.status # PENDING /\ po.status # APPROVED

NewItemRow(id, dto) ==
    [id |-> id, quantity |-> dto.quantity, unitPrice |-> dto.unitPrice,
     taxRate |-> dto.taxRate, discountPercent |-> dto.discountPercent,
     totalPrice |-> calculateItemTotal(dto)]

AddingProcs(id) ==
    {q \in Procs : procs[q].pc = "item_save" /\ procs[q].po = id
                   /\ procs[q].arg.kind = "add"}

HasItem(id, itemId) == \E i \in pos[id].items : i.id = itemId

\* What addItem / updateItem / removeItem answer before they write.
addItemRefusal(id) ==
    IF ~Visible(id) THEN "PoNotFound"
    ELSE IF ItemsLocked(pos[id]) THEN "InvalidStateForMutation"
    ELSE OK

updateItemRefusal(id, itemId) ==
    IF ~Visible(id) THEN "PoNotFound"
    ELSE IF ItemsLocked(pos[id]) THEN "InvalidStateForMutation"
    ELSE IF ~HasItem(id, itemId) THEN "ItemNotFound"
    ELSE OK

removeItemRefusal(id, itemId) ==
    IF ~Visible(id) THEN "PoNotFound"
    ELSE IF ItemsLocked(pos[id]) THEN "InvalidStateForMutation"
    ELSE IF Cardinality(pos[id].items) <= 1 THEN "LastItemRemovalForbidden"
    ELSE IF ~HasItem(id, itemId) THEN "ItemNotFound"
    ELSE OK

AddItemCall(p, id, dto) ==
    /\ IsIdle(p)
    /\ addItemRefusal(id) = OK
    /\ Cardinality(pos[id].items) + Cardinality(AddingProcs(id)) < MaxItems
    /\ Goto(p, [Idle EXCEPT !.pc = "item_save", !.po = id,
                            !.arg = [kind |-> "add", item |-> dto]])
    /\ UNCHANGED <<now, pos, payments>>

UpdateItemCall(p, id, itemId, dto) ==
    /\ IsIdle(p)
    /\ updateItemRefusal(id, itemId) = OK
    /\ Goto(p, [Idle EXCEPT !.pc = "item_save", !.po = id,
                    !.arg = [kind |-> "update", item |-> NewItemRow(itemId, dto)]])
    /\ UNCHANGED <<now, pos, payments>>

RemoveItemCall(p, id, itemId) ==
    /\ IsIdle(p)
    /\ removeItemRefusal(id, itemId) = OK
    /\ Goto(p, [Idle EXCEPT !.pc = "item_save", !.po = id,
                    !.arg = [kind |-> "remove", item |-> [id |-> itemId]]])
    /\ UNCHANGED <<now, pos, payments>>

\* poItemRepository.save(item) / remove(item): the write to the item table.
ItemsAfter(items, arg) ==
    CASE arg.kind = "add" ->
           items \cup {NewItemRow(FreeId({i.id : i \in items}, ItemIds), arg.item)}
      [] arg.kind = "update" ->
           {i \in items : i.id # arg.item.id} \cup {arg.item}
      [] arg.kind = "remove" ->
           {i \in items : i.id # arg.item.id}

ItemSave(p) ==
    /\ procs[p].pc = "item_save"
    /\ procs[p].arg.kind = "add" =>
           Cardinality(pos[procs[p].po].items) < MaxItems
    /\ pos' = [pos EXCEPT ![procs[p].po].items = ItemsAfter(@, procs[p].arg)]
    /\ Goto(p, [procs[p] EXCEPT !.pc = "recalc_read",
                                !.arg = [kind |-> procs[p].arg.kind]])
    /\ UNCHANGED <<now, payments>>

\* The columns recalculateTotals writes, from the purchase order it loaded.
recalculateTotals(po) ==
    LET subtotal == SumSubtotal(po.items)
        totalTax == SumTax(po.items)
        totalDiscount == SumDiscount(po.items)
        totalAmount == subtotal - totalDiscount + totalTax
        outstandingAmount == totalAmount - po.paidAmount * Scale
    IN [subtotal |-> toFixed2(subtotal), taxAmount |-> toFixed2(totalTax),
        discountAmount |-> toFixed2(totalDiscount),
        totalAmount |-> toFixed2(totalAmount),
        outstandingAmount |-> toFixed2(outstandingAmount)]

\* recalculateTotals, first half: findOne.
RecalcRead(p) ==
    /\ procs[p].pc = "recalc_read"
    /\ IF ~Visible(procs[p].po)
       THEN /\ Done(p)
            /\ UNCHANGED <<now, pos, payments>>
       ELSE /\ Goto(p, [procs[p] EXCEPT !.pc = "recalc_write",
                            !.snap = recalculateTotals(pos[procs[p].po])])
            /\ UNCHANGED <<now, pos, payments>>

\* recalculateTotals, second half: poRepository.update of five columns.
RecalcWrite(p) ==
    /\ procs[p].pc = "recalc_write"
    /\ LET t == procs[p].snap
       IN pos' = [pos EXCEPT ![procs[p].po] =
                     [@ EXCEPT !.subtotal = t.subtotal, !.taxAmount = t.taxAmount,
                               !.discountAmount = t.discountAmount,
                               !.totalAmount = t.totalAmount,
                               !.outstandingAmount = t.outstandingAmount]]
    /\ Done(p)
    /\ UNCHANGED <<now, payments>>

-----------------------------------------------------------------------------
(* PurchaseOrdersService.updatePaymentAmounts / reversePaymentAmount *)

\* TRUE when updatePaymentAmounts throws instead of saving.
updatePaymentAmountsThrows(po, additionalPayment) ==
    po.paidAmount + additionalPayment > po.totalAmount

\* updatePaymentAmounts with PAID given only past the total.
updatePaymentAmountsStrict(po, additionalPayment) ==
    LET newPaidAmount == po.paidAmount + additionalPayment
        newOutstanding == po.totalAmount - newPaidAmount
        newStatus == IF newOutstanding < 0 THEN PAID
                     ELSE IF newPaidAmount > 0 THEN PARTIALLY_PAID
                     ELSE po.status
    IN [po EXCEPT !.paidAmount = newPaidAmount,
                  !.outstandingAmount = Max(0, newOutstanding),
                  !.status = newStatus]

\* The entity updatePaymentAmounts saves.
updatePaymentAmounts(po, additionalPayment) ==
    LET newPaidAmount == po.paidAmount + additionalPayment
        newOutstanding == po.totalAmount - newPaidAmount
        newStatus == IF newOutstanding <= 0 THEN PAID
                     ELSE IF newPaidAmount > 0 THEN PARTIALLY_PAID
                     ELSE po.status
    IN [po EXCEPT !.paidAmount = newPaidAmount,
                  !.outstandingAmount = Max(0, newOutstanding),
                  !.status = newStatus]

\* The entity reversePaymentAmount saves; `date` is new Date().
reversePaymentAmount(po, amount, date) ==
    LET newPaidAmount == po.paidAmount - amount
        newOutstanding == po.totalAmount - newPaidAmount
        newStatus == IF newPaidAmount <= 0
                     THEN IF date > po.dueDate THEN OVERDUE ELSE APPROVED
                     ELSE PARTIALLY_PAID
    IN [po EXCEPT !.paidAmount = Max(0, newPaidAmount),
                  !.outstandingAmount = newOutstanding,
                  !.status = newStatus]

-----------------------------------------------------------------------------
(* PaymentsService.create *)

\* The amounts a caller may send (positive, two decimals).
Amounts == {5, 10}

\* The status checks without the one on PENDING.
RefusesPaymentsButPending(status) == status \in {CANCELLED, PAID}

\* The status checks of PaymentsService.create.
RefusesPayments(status) == status \in {CANCELLED, PAID, PENDING}

\* The amount check made against the total instead of what is outstanding.
ExceedsTotal(amountPaid, po) == amountPaid > po.totalAmount

\* The amount check of PaymentsService.create.
ExceedsOutstanding(amountPaid, po) == amountPaid > po.outstandingAmount

InsertingProcs == {q \in Procs : procs[q].pc \in {"pay_reference", "pay_insert"}}

\* What PaymentsService.create answers before it starts its transaction.
payRefusal(id, amountPaid) ==
    IF ~Visible(id) THEN "PoNotFound"
    ELSE IF RefusesPayments(pos[id].status) THEN "InvalidPoStateForPayment"
    ELSE IF ExceedsOutstanding(amountPaid, pos[id]) THEN "PaymentExceedsOutstanding"
    ELSE OK

PayCall(p, id, amountPaid) ==
    /\ IsIdle(p)
    /\ payRefusal(id, amountPaid) = OK
    /\ Cardinality(DOMAIN payments) + Cardinality(InsertingProcs) < MaxPayments
    /\ Goto(p, [Idle EXCEPT !.pc = "pay_reference", !.po = id,
                            !.amount = amountPaid])
    /\ UNCHANGED <<now, pos, payments>>

\* generatePaymentReference: read through the repository, outside the
\* transaction.
generatePaymentReference ==
    LET day == DayOf(now)
        seqs == { payments[i].ref[2] : i \in {j \in DOMAIN payments :
                      PaymentVisible(j) /\ payments[j].ref[1] = day} }
    IN <<day, nextSequence(seqs)>>

PayReference(p) ==
    /\ procs[p].pc = "pay_reference"
    /\ Goto(p, [procs[p] EXCEPT !.pc = "pay_insert",
                                !.ref = generatePaymentReference])
    /\ UNCHANGED <<now, pos, payments>>

ReferencePending(p, r) ==
    \E i \in DOMAIN payments :
        payments[i].ref = r /\ payments[i].fresh /\ payments[i].lock # p
ReferenceTaken(r) ==
    \E i \in DOMAIN payments : payments[i].ref = r /\ ~payments[i].fresh

\* queryRunner.manager.save(payment): a pending insert.
PayInsert(p) ==
    /\ procs[p].pc = "pay_insert"
    /\ ~ReferencePending(p, procs[p].ref)
    /\ IF ReferenceTaken(procs[p].ref)
       THEN /\ payments' = RolledBackPayments(p)
            /\ Done(p)
            /\ UNCHANGED <<now, pos>>
       ELSE LET id == FreeId(DOMAIN payments, PaymentIds)
                row == [ref |-> procs[p].ref, po |-> procs[p].po,
                        amountPaid |-> procs[p].amount, status |-> COMPLETED,
                        fresh |-> TRUE, lock |-> p]
            IN /\ payments' = [i \in DOMAIN payments \cup {id} |->
                                  IF i = id THEN row ELSE payments[i]]
               /\ Goto(p, [procs[p] EXCEPT !.pc = "pay_read", !.pay = id, !.ref = 0])
               /\ UNCHANGED <<now, pos>>

\* updatePaymentAmounts, first half: findOne and the computation.
PayRead(p) ==
    /\ procs[p].pc = "pay_read"
    /\ IF ~Visible(procs[p].po)
       THEN /\ payments' = RolledBackPayments(p)
            /\ Done(p)
            /\ UNCHANGED <<now, pos>>
       ELSE IF updatePaymentAmountsThrows(pos[procs[p].po], procs[p].amount)
       THEN /\ payments' = RolledBackPayments(p)
            /\ Done(p)
            /\ UNCHANGED <<now, pos>>
       ELSE /\ Goto(p, [procs[p] EXCEPT !.pc = "pay_save",
                !.snap = updatePaymentAmounts(pos[procs[p].po], procs[p].amount)])
            /\ UNCHANGED <<now, pos, payments>>

\* A save that leaves the status alone once the sweep has set it.
PaySaveAfterSweep(p) ==
    /\ procs[p].pc = "pay_save"
    /\ pos' = SaveRow(procs[p].po,
                      IF pos[procs[p].po].status = OVERDUE
                      THEN [procs[p].snap EXCEPT !.status = OVERDUE]
                      ELSE procs[p].snap)
    /\ Goto(p, [procs[p] EXCEPT !.pc = "pay_commit", !.snap = NoSnap])
    /\ UNCHANGED <<now, payments>>

\* updatePaymentAmounts, second half: poRepository.save, on the
\* repository's own connection.
PaySave(p) ==
    /\ procs[p].pc = "pay_save"
    /\ pos' = SaveRow(procs[p].po, procs[p].snap)
    /\ Goto(p, [procs[p] EXCEPT !.pc = "pay_commit", !.snap = NoSnap])
    /\ UNCHANGED <<now, payments>>

\* commitTransaction: the payment row becomes visible.
PayCommit(p) ==
    /\ procs[p].pc = "pay_commit"
    /\ payments' = [payments EXCEPT ![procs[p].pay].fresh = FALSE,
                                    ![procs[p].pay].lock = 0]
    /\ Done(p)
    /\ UNCHANGED <<now, pos>>

-----------------------------------------------------------------------------
(* PaymentsService.void *)

\* The checks of PaymentsService.void without the one on VOIDED.
voidRefusalOnlyMissing(payId) ==
    IF ~PaymentVisible(payId) THEN "PaymentNotFound" ELSE OK

\* What PaymentsService.void answers before it starts its transaction.
voidRefusal(payId) ==
    IF ~PaymentVisible(payId) THEN "PaymentNotFound"
    ELSE IF payments[payId].status = VOIDED THEN "PaymentAlreadyVoided"
    ELSE OK

VoidCall(p, payId) ==
    /\ IsIdle(p)
    /\ voidRefusal(payId) = OK
    /\ Goto(p, [Idle EXCEPT !.pc = "void_save", !.pay = payId,
                            !.po = payments[payId].po,
                            !.amount = payments[payId].amountPaid])
    /\ UNCHANGED <<now, pos, payments>>

\* queryRunner.manager.save(payment): a pending update, which waits while
\* another transaction holds the row.
VoidSave(p) ==
    /\ procs[p].pc = "void_save"
    /\ payments[procs[p].pay].lock = 0
    /\ payments' = [payments EXCEPT ![procs[p].pay].lock = p]
    /\ Goto(p, [procs[p] EXCEPT !.pc = "void_read"])
    /\ UNCHANGED <<now, pos>>

\* reversePaymentAmount, first half: findOne and the computation.
VoidRead(p) ==
    /\ procs[p].pc = "void_read"
    /\ IF ~Visible(procs[p].po)
       THEN /\ payments' = RolledBackPayments(p)
            /\ Done(p)
            /\ UNCHANGED <<now, pos>>
       ELSE /\ Goto(p, [procs[p] EXCEPT !.pc = "void_write",
                !.snap = reversePaymentAmount(pos[procs[p].po], procs[p].amount, now)])
            /\ UNCHANGED <<now, pos, payments>>

\* reversePaymentAmount, second half: poRepository.save.
VoidWrite(p) ==
    /\ procs[p].pc = "void_write"
    /\ pos' = SaveRow(procs[p].po, procs[p].snap)
    /\ Goto(p, [procs[p] EXCEPT !.pc = "void_commit", !.snap = NoSnap])
    /\ UNCHANGED <<now, payments>>

VoidCommit(p) ==
    /\ procs[p].pc = "void_commit"
    /\ payments' = [payments EXCEPT ![procs[p].pay].status = VOIDED,
                                    ![procs[p].pay].lock = 0]
    /\ Done(p)
    /\ UNCHANGED <<now, pos>>

-----------------------------------------------------------------------------
(* A database call that throws.  Inside a transaction the catch block rolls  *)
(* the pending writes back; what the repositories wrote stays.              *)

Fail(p) ==
    /\ procs[p].pc # "idle"
    /\ payments' = RolledBackPayments(p)
    /\ pos' = RolledBackPos(p)
    /\ Done(p)
    /\ UNCHANGED now

-----------------------------------------------------------------------------

(* The ledger: one purchase order is created, approved, cancelled, swept,   *)
(* paid and has payments voided, by NProcs concurrent requests.             *)

\* The bodies the ledger's callers send: one line of 10 ordered from a
\* vendor on immediate terms, and updates that move the status.
LedgerCreateDtos ==
    {dto \in CreateDtos : /\ Len(dto.items) = 1 /\ dto.items[1].unitPrice = 10
                           /\ dto.taxAmount = NoAmount /\ dto.discountAmount = NoAmount
                           /\ dto.vendorId # "v_advance"}

LedgerUpdateDtos ==
    {dto \in UpdateDtos : /\ dto.taxAmount = NoAmount /\ dto.discountAmount = NoAmount
                           /\ dto.notes = Absent}

\* One step of worker p on the ledger.
LedgerStep(p) ==
    \/ \E dto \in LedgerCreateDtos : FirstCreate(p, dto)
    \/ CreateNumber(p)
    \/ CreateSave(p)
    \/ CreateCommit(p)
    \/ \E id \in PoIds, dto \in LedgerUpdateDtos : UpdateCall(p, id, dto)
    \/ UpdateSave(p)
    \/ \E id \in PoIds : CancelCall(p, id)
    \/ CancelSave(p)
    \/ Sweep(p)
    \/ \E id \in PoIds, a \in Amounts : PayCall(p, id, a)
    \/ PayReference(p)
    \/ PayInsert(p)
    \/ PayRead(p)
    \/ PaySave(p)
    \/ PayCommit(p)
    \/ \E payId \in PaymentIds : VoidCall(p, payId)
    \/ VoidSave(p)
    \/ VoidRead(p)
    \/ VoidWrite(p)
    \/ VoidCommit(p)
    \/ Fail(p)

Next ==
    \/ Tick
    \/ \E p \in Procs : LedgerStep(p)

Spec == Init /\ [][Next]_vars

\* The desk works through one worker: the first.
DeskProcs == {p \in Procs : \A q \in Procs : p <= q}

\* The ledger with one request at a time.
NextSeq ==
    \/ Tick
    \/ \E p \in DeskProcs : LedgerStep(p)

SpecSeq == Init /\ [][NextSeq]_vars

-----------------------------------------------------------------------------
(* The order desk: one purchase order is created from any body, edited,     *)
(* cancelled, removed and has its lines changed, one request at a time;     *)
(* no payment is made.                                                      *)

NextEdit ==
    \E p \in DeskProcs :
        \/ \E dto \in CreateDtos : FirstCreate(p, dto)
        \/ CreateNumber(p)
        \/ CreateSave(p)
        \/ CreateCommit(p)
        \/ \E id \in PoIds, dto \in UpdateDtos : UpdateCall(p, id, dto)
        \/ UpdateSave(p)
        \/ \E id \in PoIds : CancelCall(p, id)
        \/ CancelSave(p)
        \/ \E id \in PoIds : RemoveCall(p, id)
        \/ RemoveSave(p)
        \/ \E id \in PoIds, dto \in ItemDtos : AddItemCall(p, id, dto)
        \/ \E id \in PoIds, itemId \in ItemIds, dto \in ItemDtos :
               UpdateItemCall(p, id, itemId, dto)
        \/ \E id \in PoIds, itemId \in ItemIds : RemoveItemCall(p, id, itemId)
        \/ ItemSave(p)
        \/ RecalcRead(p)
        \/ RecalcWrite(p)
        \/ Fail(p)

SpecEdit == Init /\ [][NextEdit]_vars

-----------------------------------------------------------------------------
(* The lines desk: one purchase order of one or two lines is created,       *)
(* moved between statuses, swept, paid and removed, and has its lines       *)
(* added, changed and removed, one request at a time.  No database call     *)
(* fails here.                                                              *)

\* The bodies sent: a line of 10, alone or followed by a line of 5, no
\* override, for the vendor on immediate terms.
LinesCreateDtos ==
    {dto \in CreateDtos :
        /\ dto.vendorId = "v_immediate"
        /\ dto.taxAmount = NoAmount
        /\ dto.discountAmount = NoAmount
        /\ dto.items[1].unitPrice = 10
        /\ (Len(dto.items) = 2 => dto.items[2].unitPrice = 5)}

LinesStep(p) ==
    \/ \E dto \in LinesCreateDtos : FirstCreate(p, dto)
    \/ CreateNumber(p)
    \/ CreateSave(p)
    \/ CreateCommit(p)
    \/ \E id \in PoIds, dto \in LedgerUpdateDtos : UpdateCall(p, id, dto)
    \/ UpdateSave(p)
    \/ \E id \in PoIds : RemoveCall(p, id)
    \/ RemoveSave(p)
    \/ Sweep(p)
    \/ \E id \in PoIds, dto \in ItemDtos : AddItemCall(p, id, dto)
    \/ \E id \in PoIds, itemId \in ItemIds, dto \in ItemDtos :
           UpdateItemCall(p, id, itemId, dto)
    \/ \E id \in PoIds, itemId \in ItemIds : RemoveItemCall(p, id, itemId)
    \/ ItemSave(p)
    \/ RecalcRead(p)
    \/ RecalcWrite(p)
    \/ \E id \in PoIds, a \in Amounts : PayCall(p, id, a)
    \/ PayReference(p)
    \/ PayInsert(p)
    \/ PayRead(p)
    \/ PaySave(p)
    \/ PayCommit(p)

NextLines ==
    \/ Tick
    \/ \E p \in DeskProcs : LinesStep(p)

SpecLines == Init /\ [][NextLines]_vars

-----------------------------------------------------------------------------
(* The open desk: the lines desk with payments voided as well, and with     *)
(* lines added and changed to any line the validation accepts, a discount   *)
(* above 100% included; one request at a time.                              *)

\* discountPercent is validated with Min(0) only.
WideItemDtos ==
    ItemDtos \cup {[quantity |-> 1, unitPrice |-> 10, taxRate |-> 0,
                    discountPercent |-> 200]}

OpenStep(p) ==
    \/ \E dto \in LinesCreateDtos : FirstCreate(p, dto)
    \/ CreateNumber(p)
    \/ CreateSave(p)
    \/ CreateCommit(p)
    \/ \E id \in PoIds, dto \in LedgerUpdateDtos : UpdateCall(p, id, dto)
    \/ UpdateSave(p)
    \/ Sweep(p)
    \/ \E id \in PoIds, dto \in WideItemDtos : AddItemCall(p, id, dto)
    \/ \E id \in PoIds, itemId \in ItemIds, dto \in WideItemDtos :
           UpdateItemCall(p, id, itemId, dto)
    \/ \E id \in PoIds, itemId \in ItemIds : RemoveItemCall(p, id, itemId)
    \/ ItemSave(p)
    \/ RecalcRead(p)
    \/ RecalcWrite(p)
    \/ \E id \in PoIds, a \in Amounts : PayCall(p, id, a)
    \/ PayReference(p)
    \/ PayInsert(p)
    \/ PayRead(p)
    \/ PaySave(p)
    \/ PayCommit(p)
    \/ \E payId \in PaymentIds : VoidCall(p, payId)
    \/ VoidSave(p)
    \/ VoidRead(p)
    \/ VoidWrite(p)
    \/ VoidCommit(p)

NextOpen ==
    \/ Tick
    \/ \E p \in DeskProcs : OpenStep(p)

SpecOpen == Init /\ [][NextOpen]_vars

-----------------------------------------------------------------------------
(* The unapproved desk: the ledger's requests, one at a time, without the   *)
(* edit that approves: the purchase order is created, cancelled, swept,     *)
(* given any other status by an edit, paid and has payments voided.  No     *)
(* database call fails here.                                                *)

UnapprovingUpdateDtos == {dto \in LedgerUpdateDtos : dto.status # APPROVED}

UnapprovedStep(p) ==
    \/ \E dto \in LedgerCreateDtos : FirstCreate(p, dto)
    \/ CreateNumber(p)
    \/ CreateSave(p)
    \/ CreateCommit(p)
    \/ \E id \in PoIds, dto \in UnapprovingUpdateDtos : UpdateCall(p, id, dto)
    \/ UpdateSave(p)
    \/ \E id \in PoIds : CancelCall(p, id)
    \/ CancelSave(p)
    \/ Sweep(p)
    \/ \E id \in PoIds, a \in Amounts : PayCall(p, id, a)
    \/ PayReference(p)
    \/ PayInsert(p)
    \/ PayRead(p)
    \/ PaySave(p)
    \/ PayCommit(p)
    \/ \E payId \in PaymentIds : VoidCall(p, payId)
    \/ VoidSave(p)
    \/ VoidRead(p)
    \/ VoidWrite(p)
    \/ VoidCommit(p)

NextUnapproved ==
    \/ Tick
    \/ \E p \in DeskProcs : UnapprovedStep(p)

SpecUnapproved == Init /\ [][NextUnapproved]_vars

-----------------------------------------------------------------------------
(* The open desk with the sweep kept running: the desk serves one request   *)
(* at a time; the sweep is a single statement, holds no worker and may run  *)
(* between any two steps of a request; whenever it would change a row it    *)
(* is eventually run.  Nothing else is promised: a request may stop at any  *)
(* point and callers may stay away.                                         *)

\* markOverduePurchaseOrders, called by whoever runs the sweep.
SweepOverdue ==
    /\ pos' = [i \in DOMAIN pos |->
                 IF i \in SweepHits(now) THEN [pos[i] EXCEPT !.status = OVERDUE]
                 ELSE pos[i]]
    /\ UNCHANGED <<now, payments, procs>>

NextSweepFair ==
    \/ Tick
    \/ SweepOverdue
    \/ \E p \in DeskProcs : OpenStep(p)

\* A request that has been accepted runs to its end: its handler's next
\* step is taken once the awaited query returns.
RunToCompletion ==
    \E p \in DeskProcs : ~IsIdle(p) /\ OpenStep(p)

SpecSweepFair ==
    /\ Init
    /\ [][NextSweepFair]_vars
    /\ WF_vars(SweepOverdue)
    /\ WF_vars(RunToCompletion)

-----------------------------------------------------------------------------
(* The lines race: a purchase order of two lines is created and approved,   *)
(* and NProcs concurrent requests remove and change its lines and pay it.   *)
(* No database call fails here.                                             *)

LinesRaceCreateDtos == {dto \in LinesCreateDtos : Len(dto.items) = 2}

LinesRaceUpdateDtos == {dto \in LedgerUpdateDtos : dto.status = APPROVED}

LinesRaceStep(p) ==
    \/ \E dto \in LinesRaceCreateDtos : FirstCreate(p, dto)
    \/ CreateNumber(p)
    \/ CreateSave(p)
    \/ CreateCommit(p)
    \/ \E id \in PoIds, dto \in LinesRaceUpdateDtos : UpdateCall(p, id, dto)
    \/ UpdateSave(p)
    \/ \E id \in PoIds, itemId \in ItemIds, dto \in ItemDtos :
           UpdateItemCall(p, id, itemId, dto)
    \/ \E id \in PoIds, itemId \in ItemIds : RemoveItemCall(p, id, itemId)
    \/ ItemSave(p)
    \/ RecalcRead(p)
    \/ RecalcWrite(p)
    \/ \E id \in PoIds, a \in Amounts : PayCall(p, id, a)
    \/ PayReference(p)
    \/ PayInsert(p)
    \/ PayRead(p)
    \/ PaySave(p)
    \/ PayCommit(p)

NextLinesRace == \E p \in Procs : LinesRaceStep(p)

SpecLinesRace == Init /\ [][NextLinesRace]_vars

-----------------------------------------------------------------------------
(* The order counter: NProcs concurrent requests create purchase orders,    *)
(* each taking its number from generatePoNumber.  No database call fails    *)
(* here other than on the unique index of the number.                       *)

\* The bodies sent: one line, no override, for either active vendor.
CounterCreateDtos ==
    {dto \in CreateDtos : /\ Len(dto.items) = 1
                           /\ dto.taxAmount = NoAmount
                           /\ dto.discountAmount = NoAmount}

NextCreate ==
    \/ Tick
    \/ \E p \in Procs :
          \/ \E dto \in CounterCreateDtos : CreateCall(p, dto)
          \/ CreateNumber(p)
          \/ CreateSave(p)
          \/ CreateCommit(p)

SpecCreate == Init /\ [][NextCreate]_vars

-----------------------------------------------------------------------------
(* The counter after a removal: purchase orders are created and removed,    *)
(* one request at a time.  No database call fails here other than on the    *)
(* unique index of the number.                                              *)

NextReissue ==
    \/ Tick
    \/ \E p \in DeskProcs :
          \/ \E dto \in CounterCreateDtos : CreateCall(p, dto)
          \/ CreateNumber(p)
          \/ CreateSave(p)
          \/ CreateCommit(p)
          \/ \E id \in PoIds : RemoveCall(p, id)
          \/ RemoveSave(p)

SpecReissue == Init /\ [][NextReissue]_vars

-----------------------------------------------------------------------------
(* The saves of create(): NProcs concurrent requests create purchase orders *)
(* of one or two lines, the row of the purchase order and the row of each   *)
(* line saved one after the other, and any database call may fail.          *)

\* The bodies sent: one or two lines, no override, for any vendor.
ItemsCreateDtos ==
    {dto \in CreateDtos : /\ dto.taxAmount = NoAmount
                           /\ dto.discountAmount = NoAmount}

NextCreateItems ==
    \/ Tick
    \/ \E p \in Procs :
          \/ \E dto \in ItemsCreateDtos : CreateCall(p, dto)
          \/ CreateNumber(p)
          \/ CreateSavePo(p)
          \/ CreateSaveItem(p)
          \/ CreateCommit(p)
          \/ Fail(p)

SpecCreateItems == Init /\ [][NextCreateItems]_vars

-----------------------------------------------------------------------------
(* The end of the day's references: a day on which the latest committed     *)
(* payment already carries sequence 998 or 999 (the earlier ones were made  *)
(* against other purchase orders and do not matter to the allocator, which  *)
(* reads the latest only).  The purchase order is approved and is either    *)
(* untouched, its payment voided, or half paid by it.                       *)

LatestSequences == {998, 999}

InitAlloc ==
    /\ now = 0
    /\ procs = [p \in Procs |-> Idle]
    /\ \E dto \in LedgerCreateDtos, s \in LatestSequences, st \in {COMPLETED, VOIDED} :
          LET po == NewPurchaseOrder(0, dto, <<0, 1>>, 0)
              paid == IF st = COMPLETED THEN 5 ELSE 0
          IN /\ createRefusal(dto) = OK
             /\ pos = [i \in {1} |->
                          [po EXCEPT !.status = IF st = COMPLETED THEN PARTIALLY_PAID
                                                ELSE APPROVED,
                                     !.paidAmount = paid,
                                     !.outstandingAmount = po.totalAmount - paid]]
             /\ payments = [i \in {1} |->
                              [ref |-> <<0, s>>, po |-> 1, amountPaid |-> 5,
                               status |-> st, fresh |-> FALSE, lock |-> 0]]

NextAlloc ==
    \/ Tick
    \/ \E p \in Procs :
          \/ \E id \in PoIds, a \in Amounts : PayCall(p, id, a)
          \/ PayReference(p)
          \/ PayInsert(p)
          \/ PayRead(p)
          \/ PaySave(p)
          \/ PayCommit(p)
          \/ \E payId \in PaymentIds : VoidCall(p, payId)
          \/ VoidSave(p)
          \/ VoidRead(p)
          \/ VoidWrite(p)
          \/ VoidCommit(p)

SpecAlloc == InitAlloc /\ [][NextAlloc]_vars

-----------------------------------------------------------------------------
(* Properties *)

\* Two amounts of money agree within 0.01.
Within(a, b) == a - b <= 1 /\ b - a <= 1

\* The sum of the COMPLETED payments committed against purchase order id.
CompletedPaid(id) ==
    LET mine == {i \in DOMAIN payments : /\ payments[i].po = id
                                          /\ payments[i].status = COMPLETED
                                          /\ ~payments[i].fresh}
    IN SumOver(mine, [i \in mine |-> payments[i].amountPaid])

\* C1: recordPayment is all-or-nothing: a recordPayment that has written the
\* purchase order's new amounts ends with its Payment row committed.
C1_RecordAllOrNothing ==
    [][\A p \in Procs :
          (procs[p].pc = "pay_commit" /\ procs'[p].pc = "idle")
              => /\ procs[p].pay \in DOMAIN payments'
                 /\ ~payments'[procs[p].pay].fresh]_vars

\* C2: voidPayment is all-or-nothing: a voidPayment that has reversed the
\* purchase order's amounts ends with its Payment marked VOIDED.
C2_VoidAllOrNothing ==
    [][\A p \in Procs :
          (procs[p].pc = "void_commit" /\ procs'[p].pc = "idle")
              => payments'[procs[p].pay].status = VOIDED]_vars

\* C3: the COMPLETED payments committed against a purchase order never sum
\* to more than its totalAmount, however two recordPayment calls interleave.
C3_NoOverPayment ==
    \A id \in DOMAIN pos : CompletedPaid(id) <= pos[id].totalAmount

\* C4, as stated: recordPayment with an amount above the outstanding amount
\* always answers PaymentExceedsOutstanding.
C4_AlwaysExceedsOutstanding ==
    \A id \in PoIds, a \in Amounts :
        (Visible(id) /\ a > pos[id].outstandingAmount)
            => payRefusal(id, a) = "PaymentExceedsOutstanding"

\* C4, amended: recordPayment with an amount above the outstanding amount
\* always fails, with PaymentExceedsOutstanding when the purchase order is
\* APPROVED, PARTIALLY_PAID or OVERDUE and with InvalidPoStateForPayment when
\* it is PENDING, PAID or CANCELLED; and no recordPayment gets as far as its
\* transaction with an amount above the outstanding amount it read, so no
\* row is written.
C4_ExceedingIsRefused ==
    /\ [](\A id \in PoIds, a \in Amounts :
            (Visible(id) /\ a > pos[id].outstandingAmount)
                => payRefusal(id, a) =
                     IF pos[id].status \in {PENDING, PAID, CANCELLED}
                     THEN "InvalidPoStateForPayment"
                     ELSE "PaymentExceedsOutstanding")
    /\ [][\A p \in Procs :
            (procs[p].pc = "idle" /\ procs'[p].pc = "pay_reference")
                => /\ procs'[p].amount <= pos[procs'[p].po].outstandingAmount
                   /\ pos' = pos /\ payments' = payments]_vars

\* C4 witness: a part-paid purchase order on which a payment of more than
\* what is outstanding is refused with PaymentExceedsOutstanding.
C4_Witness ==
    \E id \in PoIds, a \in Amounts :
        /\ Visible(id)
        /\ pos[id].status = PARTIALLY_PAID
        /\ pos[id].paidAmount > 0
        /\ a > pos[id].outstandingAmount
        /\ payRefusal(id, a) = "PaymentExceedsOutstanding"

\* C5: every committed purchase order has
\* paidAmount + outstandingAmount = totalAmount, within 0.01.
C5_PaidPlusOutstanding ==
    \A id \in DOMAIN pos :
        Committed(id) =>
            Within(pos[id].paidAmount + pos[id].outstandingAmount, pos[id].totalAmount)

\* C6: every committed purchase order has
\* totalAmount = subtotal - discountAmount + taxAmount, within 0.01.
C6_TotalFormula ==
    \A id \in DOMAIN pos :
        Committed(id) =>
            Within(pos[id].totalAmount,
                   pos[id].subtotal - pos[id].discountAmount + pos[id].taxAmount)

\* C7: every purchase order has paidAmount >= 0 and outstandingAmount >= 0.
C7_NonNegative ==
    \A id \in DOMAIN pos :
        pos[id].paidAmount >= 0 /\ pos[id].outstandingAmount >= 0

\* C8: a CANCELLED purchase order has paidAmount = 0.
C8_CancelledUnpaid ==
    \A id \in DOMAIN pos : pos[id].status = CANCELLED => pos[id].paidAmount = 0

\* The transition table as the specification prints it.
TransitionTable ==
    ({PENDING} \X {APPROVED, CANCELLED})
      \cup ({APPROVED} \X {PARTIALLY_PAID, PAID, CANCELLED})
      \cup ({PARTIALLY_PAID} \X {PAID, CANCELLED})
      \cup ({OVERDUE} \X {PARTIALLY_PAID, PAID, CANCELLED})

\* C9: an update that carries a status is accepted exactly when the pair
\* (current status, new status) is in the transition table and is refused
\* with InvalidStatusTransition otherwise; a refused update writes nothing,
\* so every update that goes on to save carries a pair of the table.
C9_TransitionTable ==
    /\ [](\A id \in PoIds, s \in PurchaseOrderStatus :
            Visible(id) =>
                updateRefusal(id, [NoUpdate EXCEPT !.status = s]) =
                    IF <<pos[id].status, s>> \in TransitionTable
                    THEN OK ELSE "InvalidStatusTransition")
    /\ [][\A p \in Procs :
            (procs[p].pc = "idle" /\ procs'[p].pc = "update_save")
                => LET id == procs'[p].po
                   IN /\ \/ procs'[p].snap.status = pos[id].status
                         \/ <<pos[id].status, procs'[p].snap.status>> \in TransitionTable
                      /\ pos' = pos]_vars

\* C9 witness: an accepted update is about to move a PENDING purchase order
\* to APPROVED.
C9_Witness ==
    \E p \in Procs :
        /\ procs[p].pc = "update_save"
        /\ pos[procs[p].po].status = PENDING
        /\ procs[p].snap.status = APPROVED

\* C10: CANCELLED is terminal: no step changes the status of a CANCELLED
\* purchase order.
C10_CancelledTerminal ==
    [][\A id \in DOMAIN pos :
          pos[id].status = CANCELLED
              => (id \in DOMAIN pos' /\ pos'[id].status = CANCELLED)]_vars

\* The step turns purchase order id OVERDUE.
BecomesOverdue(id) ==
    /\ id \in DOMAIN pos /\ id \in DOMAIN pos'
    /\ pos[id].status # OVERDUE
    /\ pos'[id].status = OVERDUE

\* The step is the sweep's UPDATE and purchase order id is one of its rows.
SweptOverdue(id) ==
    /\ procs' = procs
    /\ id \in SweepHits(now)
    /\ pos'[id] = [pos[id] EXCEPT !.status = OVERDUE]

C12_StatusRefusal ==
    /\ [](\A id \in PoIds, a \in Amounts :
            (Visible(id) /\ pos[id].status \in {CANCELLED, PAID, PENDING})
                => payRefusal(id, a) = "InvalidPoStateForPayment")
    /\ [][\A p \in Procs :
            (procs[p].pc = "idle" /\ procs'[p].pc = "pay_reference")
                => /\ pos[procs'[p].po].status \in {APPROVED, PARTIALLY_PAID, OVERDUE}
                   /\ pos' = pos
                   /\ payments' = payments]_vars

\* C12 witness: a caller is free to send a payment for a PAID purchase
\* order, and the answer is the status refusal.
C12_Witness ==
    \E id \in PoIds, a \in Amounts, p \in Procs :
        /\ IsIdle(p)
        /\ Visible(id)
        /\ pos[id].status = PAID
        /\ a <= pos[id].totalAmount
        /\ payRefusal(id, a) = "InvalidPoStateForPayment"

\* C13: the step in which recordPayment(amount) updates the purchase order
\* leaves paidAmount = paid + amount, outstandingAmount = max(0, total -
\* paidAmount) and status PAID when that is <= 0, else PARTIALLY_PAID,
\* whichever accepting status the purchase order had.
C13_PaymentArithmetic ==
    [][\A p \in Procs :
          (procs[p].pc = "pay_save" /\ procs'[p].pc = "pay_commit") =>
              LET id == procs[p].po
                  paid == pos[id].paidAmount
                  total == pos[id].totalAmount
                  amount == procs[p].amount
              IN /\ pos[id].status \in {APPROVED, PARTIALLY_PAID, OVERDUE}
                 /\ pos'[id].paidAmount = paid + amount
                 /\ pos'[id].outstandingAmount = Max(0, total - (paid + amount))
                 /\ pos'[id].status = IF total - (paid + amount) <= 0
                                      THEN PAID ELSE PARTIALLY_PAID
                 /\ pos'[id].totalAmount = total]_vars

\* C13 witness: a second payment of 5 has just settled a purchase order of
\* 10 in full.
C13_Witness ==
    \E p \in Procs :
        /\ procs[p].pc = "pay_commit"
        /\ procs[p].amount = 5
        /\ pos[procs[p].po].paidAmount = 10
        /\ pos[procs[p].po].outstandingAmount = 0
        /\ pos[procs[p].po].status = PAID

\* C14: voidPayment of a payment of amount A computes, from the purchase
\* order it reads at time now, paidAmount = paid - A, outstandingAmount =
\* total - paidAmount, and status PARTIALLY_PAID if paidAmount > 0, else
\* APPROVED when dueDate >= now and OVERDUE when dueDate < now, and its
\* next step leaves the purchase order with exactly these values.
C14_VoidArithmetic ==
    [][\A p \in Procs :
          /\ (procs[p].pc = "void_read" /\ procs'[p].pc = "void_write") =>
                LET id == procs[p].po
                    paid == pos[id].paidAmount
                    total == pos[id].totalAmount
                    A == procs[p].amount
                    saved == procs'[p].snap
                IN /\ saved.paidAmount = paid - A
                   /\ saved.outstandingAmount = total - saved.paidAmount
                   /\ saved.status =
                          IF saved.paidAmount > 0 THEN PARTIALLY_PAID
                          ELSE IF pos[id].dueDate >= now THEN APPROVED
                          ELSE OVERDUE
          /\ (procs[p].pc = "void_write" /\ procs'[p].pc = "void_commit") =>
                LET id == procs[p].po
                IN /\ pos'[id].paidAmount = procs[p].snap.paidAmount
                   /\ pos'[id].outstandingAmount = procs[p].snap.outstandingAmount
                   /\ pos'[id].status = procs[p].snap.status]_vars

\* C15: in every state where no call is under way, for every purchase order
\* and amount that recordPayment accepts, recording the payment and then
\* voiding it gives back the paidAmount and the outstandingAmount the
\* purchase order had before, within one cent.
C15_RoundTrip ==
    (\A p \in Procs : procs[p].pc = "idle") =>
        \A id \in PoIds, A \in Amounts :
            (/\ payRefusal(id, A) = OK
             /\ ~updatePaymentAmountsThrows(pos[id], A)) =>
                LET paidPo == updatePaymentAmounts(pos[id], A)
                    voidedPo == reversePaymentAmount(paidPo, A, now)
                IN /\ Within(voidedPo.paidAmount, pos[id].paidAmount)
                   /\ Within(voidedPo.outstandingAmount, pos[id].outstandingAmount)

\* C16: a committed payment row is never deleted, never changes the
\* purchase order it references, and once VOIDED stays VOIDED.
C16_PaymentOneWay ==
    [][\A i \in DOMAIN payments :
          ~payments[i].fresh =>
              /\ i \in DOMAIN payments'
              /\ payments'[i].po = payments[i].po
              /\ payments'[i].amountPaid = payments[i].amountPaid
              /\ ~payments'[i].fresh
              /\ (payments[i].status = VOIDED => payments'[i].status = VOIDED)]_vars

\* C16 witness: a payment was voided and the same purchase order has taken
\* another payment since; the voided row is still there.
C16_Witness ==
    \E i, j \in DOMAIN payments :
        /\ i # j
        /\ payments[i].status = VOIDED /\ ~payments[i].fresh
        /\ payments[j].status = COMPLETED /\ ~payments[j].fresh
        /\ payments[j].po = payments[i].po
        /\ (\/ payments[i].ref[1] < payments[j].ref[1]
            \/ payments[i].ref[2] < payments[j].ref[2])

\* C17: voiding a payment that is already VOIDED is refused with
\* PaymentAlreadyVoided and voiding a missing payment with PaymentNotFound;
\* a refused call starts no transaction and writes nothing, so the only
\* voids that go on are of COMPLETED payments, and starting one changes no
\* row.
C17_VoidRefusal ==
    /\ [](\A payId \in PaymentIds :
            /\ ~PaymentVisible(payId) => voidRefusal(payId) = "PaymentNotFound"
            /\ (PaymentVisible(payId) /\ payments[payId].status = VOIDED)
                  => voidRefusal(payId) = "PaymentAlreadyVoided")
    /\ [][\A p \in Procs :
            (procs[p].pc = "idle" /\ procs'[p].pc = "void_save")
                => /\ PaymentVisible(procs'[p].pay)
                   /\ payments[procs'[p].pay].status = COMPLETED
                   /\ pos' = pos
                   /\ payments' = payments]_vars

\* C17 witness: a caller is free to void a payment that is VOIDED, and the
\* answer is PaymentAlreadyVoided; another id names no payment.
C17_Witness ==
    \E payId, missing \in PaymentIds, p \in Procs :
        /\ IsIdle(p)
        /\ PaymentVisible(payId)
        /\ payments[payId].status = VOIDED
        /\ voidRefusal(payId) = "PaymentAlreadyVoided"
        /\ missing \notin DOMAIN payments
        /\ voidRefusal(missing) = "PaymentNotFound"

\* C18: every create() that has its number goes on to save its purchase
\* order: none is turned away at the insert.
C18_EveryCreateCompletes ==
    [][\A p \in Procs :
          procs[p].pc = "create_save" =>
              procs'[p].pc \in {"create_save", "create_commit"}]_vars

\* The reference recordPayment call p holds: the one generatePaymentReference
\* returned to it, or the one on the row it has inserted.
HeldReference(p) ==
    IF procs[p].pc = "pay_insert" THEN procs[p].ref
    ELSE payments[procs[p].pay].ref

\* C19: two recordPayment calls under way at the same time never hold the
\* same payment reference.
C19_DistinctReferences ==
    \A p, q \in Procs :
        (/\ p # q
         /\ procs[p].pc \in {"pay_insert", "pay_read", "pay_save", "pay_commit"}
         /\ procs[q].pc \in {"pay_insert", "pay_read", "pay_save", "pay_commit"})
            => HeldReference(p) # HeldReference(q)

\* C20: no recordPayment call is ever handed a reference whose sequence
\* takes more than three digits.
C20_ThreeDigits ==
    \A p \in Procs :
        procs[p].pc = "pay_insert" => Len(padStart3(procs[p].ref[2])) <= 3

\* The step is a run of markOverduePurchaseOrders: the only step that takes
\* no worker and leaves the clock alone.
SweepStep == procs' = procs /\ now' = now

\* C21: right after a sweep, a second sweep with the same today matches no
\* row: it reports 0 affected and leaves the state as the first one left it.
C21_SweepIdempotent ==
    [][SweepStep =>
          /\ SweepAffected(now)' = 0
          /\ \A i \in DOMAIN pos' : i \notin SweepHits(now)']_vars

\* C21 witness: the sweep has turned an unpaid purchase order OVERDUE, and a
\* second sweep now would report 0.
C21_Witness ==
    \E id \in DOMAIN pos :
        /\ payments = <<>>
        /\ pos[id].status = OVERDUE
        /\ pos[id].dueDate < now
        /\ SweepAffected(now) = 0

\* C22: a sweep changes nothing but the status column: every other column
\* and the items of every purchase order, the set of purchase orders and
\* every payment are as before.
C22_SweepOnlyStatus ==
    [][SweepStep =>
          /\ DOMAIN pos' = DOMAIN pos
          /\ \A i \in DOMAIN pos :
                pos'[i] = [pos[i] EXCEPT !.status = pos'[i].status]
          /\ payments' = payments]_vars

\* C22 witness: the sweep has turned a half-paid purchase order OVERDUE;
\* its payment and its amounts are still there.
C22_Witness ==
    \E id \in DOMAIN pos, i \in DOMAIN payments :
        /\ pos[id].status = OVERDUE
        /\ pos[id].paidAmount = 5 /\ pos[id].outstandingAmount = 5
        /\ payments[i].po = id /\ payments[i].status = COMPLETED
        /\ ~payments[i].fresh

\* C24: a sweep at `today` turns OVERDUE exactly the purchase orders with
\* dueDate < today, outstandingAmount > 0 and status PENDING, APPROVED or
\* PARTIALLY_PAID, leaves the status of every other one as it was, and
\* returns the number of purchase orders it turned.
C24_SweepExactly ==
    [][SweepStep =>
          /\ \A i \in DOMAIN pos :
                pos'[i].status =
                    IF /\ pos[i].dueDate < now
                       /\ pos[i].outstandingAmount > 0
                       /\ pos[i].status \in {PENDING, APPROVED, PARTIALLY_PAID}
                    THEN OVERDUE
                    ELSE pos[i].status
          /\ SweepAffected(now) =
                Cardinality({i \in DOMAIN pos : pos'[i].status # pos[i].status})]_vars

\* C24 witness: an unpaid purchase order past its due date has been swept:
\* it is OVERDUE with nothing paid and its whole total outstanding.
C24_Witness ==
    \E id \in DOMAIN pos :
        /\ \A p \in Procs : procs[p].pc = "idle"
        /\ payments = <<>>
        /\ pos[id].status = OVERDUE
        /\ pos[id].paidAmount = 0
        /\ pos[id].outstandingAmount = pos[id].totalAmount
        /\ pos[id].dueDate < now

\* C23: the payment that pays a purchase order off wins over the sweep:
\* whatever the sweep did between the payment's read and its save, the save
\* leaves the status PAID; the sweep never touches a purchase order with
\* nothing outstanding; and no purchase order with outstandingAmount 0 is
\* OVERDUE.
C23_PaymentWinsSweep ==
    /\ [](\A id \in DOMAIN pos :
            pos[id].outstandingAmount = 0 => pos[id].status # OVERDUE)
    /\ [][/\ \A p \in Procs :
               (/\ procs[p].pc = "pay_save" /\ procs'[p].pc = "pay_commit"
                /\ procs[p].snap.outstandingAmount = 0)
                   => /\ pos'[procs[p].po].status = PAID
                      /\ pos'[procs[p].po].outstandingAmount = 0
          /\ SweepStep =>
               \A id \in DOMAIN pos :
                   pos[id].outstandingAmount = 0 => pos'[id] = pos[id]]_vars

\* C23 witness: the sweep ran while a payment in full was under way: the
\* payment took its reference on a day the purchase order was not yet past
\* due, the purchase order is OVERDUE now, and the payment is about to save
\* it as PAID.
C23_Witness ==
    \E p \in Procs :
        /\ procs[p].pc = "pay_save"
        /\ procs[p].snap.status = PAID
        /\ procs[p].snap.outstandingAmount = 0
        /\ pos[procs[p].po].status = OVERDUE
        /\ pos[procs[p].po].dueDate >= payments[procs[p].pay].ref[1] * DayLen
        /\ \A q \in Procs : q # p => procs[q].pc = "idle"

\* C25: while a purchase order is neither PENDING nor APPROVED, addItem,
\* updateItem and removeItem are refused with InvalidStateForMutation, and
\* a refused call writes nothing; the item calls that go on to write are on
\* PENDING or APPROVED purchase orders, and starting one changes no row.
C25_ItemsOnlyWhileOpen ==
    /\ [](\A id \in PoIds, itemId \in ItemIds :
            (/\ Visible(id)
             /\ pos[id].status \in {PARTIALLY_PAID, PAID, OVERDUE, CANCELLED})
                => /\ addItemRefusal(id) = "InvalidStateForMutation"
                   /\ updateItemRefusal(id, itemId) = "InvalidStateForMutation"
                   /\ removeItemRefusal(id, itemId) = "InvalidStateForMutation")
    /\ [][\A p \in Procs :
            (procs[p].pc = "idle" /\ procs'[p].pc = "item_save")
                => /\ pos[procs'[p].po].status \in {PENDING, APPROVED}
                   /\ pos' = pos
                   /\ payments' = payments]_vars

\* C25 witness: a caller is free to remove one of the two lines of an
\* OVERDUE purchase order, and the answer is InvalidStateForMutation.
C25_Witness ==
    \E id \in PoIds, itemId \in ItemIds, p \in Procs :
        /\ IsIdle(p)
        /\ Visible(id)
        /\ pos[id].status = OVERDUE
        /\ Cardinality(pos[id].items) = 2
        /\ HasItem(id, itemId)
        /\ removeItemRefusal(id, itemId) = "InvalidStateForMutation"

\* C26: a purchase order that is PENDING, APPROVED, PARTIALLY_PAID or
\* OVERDUE always has at least one line.
C26_ItemsNeverEmpty ==
    \A id \in DOMAIN pos :
        pos[id].status \in {PENDING, APPROVED, PARTIALLY_PAID, OVERDUE}
            => pos[id].items # {}

\* C27: no recomputation of the totals is ever committed with a negative
\* outstandingAmount: the mutation that would cause it fails and changes
\* nothing.
C27_RecalculationNeverNegative ==
    [][\A p \in Procs :
          (procs[p].pc = "recalc_write" /\ procs'[p].pc = "idle")
              => pos'[procs[p].po].outstandingAmount >= 0]_vars

\* C28: an item mutation and the recomputation of the totals are one unit:
\* the step that changes the lines of a purchase order leaves totalAmount
\* and outstandingAmount as recomputed from the new lines, and the step
\* that writes recomputed totals leaves outstandingAmount = totalAmount -
\* paidAmount for the paidAmount committed at that moment.
C28_ItemMutationAtomic ==
    [][/\ \A id \in DOMAIN pos :
             (id \in DOMAIN pos' /\ pos'[id].items # pos[id].items) =>
                 /\ pos'[id].totalAmount = recalculateTotals(pos'[id]).totalAmount
                 /\ pos'[id].outstandingAmount =
                        recalculateTotals(pos'[id]).outstandingAmount
       /\ \A p \in Procs :
             (procs[p].pc = "recalc_write" /\ procs'[p].pc = "idle") =>
                 pos'[procs[p].po].outstandingAmount =
                     pos'[procs[p].po].totalAmount - pos'[procs[p].po].paidAmount]_vars

\* C29: cancel() is accepted on a PENDING, APPROVED, PARTIALLY_PAID or
\* OVERDUE purchase order with nothing paid, and then sets the status to
\* CANCELLED and nothing else; it is refused on a PAID purchase order, and
\* refused with CannotCancelWithPayments on any other purchase order with
\* paidAmount > 0; a refused call writes nothing.
C29_Cancel ==
    /\ [](\A id \in PoIds :
            Visible(id) =>
                /\ (pos[id].status = PAID => cancelRefusal(id) # OK)
                /\ (pos[id].status # PAID /\ pos[id].paidAmount > 0)
                      => cancelRefusal(id) = "CannotCancelWithPayments"
                /\ (/\ pos[id].paidAmount = 0
                    /\ pos[id].status \in {PENDING, APPROVED, PARTIALLY_PAID, OVERDUE})
                      => cancelRefusal(id) = OK)
    /\ [][\A p \in Procs :
            /\ (procs[p].pc = "idle" /\ procs'[p].pc = "cancel_save")
                  => /\ pos[procs'[p].po].status # PAID
                     /\ pos[procs'[p].po].paidAmount = 0
                     /\ pos' = pos
                     /\ payments' = payments
            /\ (procs[p].pc = "cancel_save" /\ procs'[p].pc = "idle")
                  => \/ pos' = pos
                     \/ pos' = [pos EXCEPT ![procs[p].po].status = CANCELLED]]_vars

\* C29 witness: a cancel of an OVERDUE purchase order with nothing paid has
\* been accepted and is about to save it.
C29_Witness ==
    \E p \in Procs :
        /\ procs[p].pc = "cancel_save"
        /\ pos[procs[p].po].status = OVERDUE
        /\ pos[procs[p].po].paidAmount = 0
        /\ procs[p].snap.status = CANCELLED

\* C30: remove() is refused with CannotDeleteWithPaymentHistory while
\* paidAmount > 0 and a refused call writes nothing; an accepted remove()
\* sets the deletion mark and nothing else; the mark is set by no other
\* step; and no committed purchase order row ever disappears.
C30_Remove ==
    /\ [](\A id \in PoIds :
            (Visible(id) /\ pos[id].paidAmount > 0)
                => removeRefusal(id) = "CannotDeleteWithPaymentHistory")
    /\ [][/\ \A p \in Procs :
               /\ (procs[p].pc = "idle" /\ procs'[p].pc = "remove_save")
                     => /\ pos[procs'[p].po].paidAmount = 0
                        /\ pos' = pos
                        /\ payments' = payments
               /\ (procs[p].pc = "remove_save" /\ procs'[p].pc = "idle")
                     => /\ pos' = [pos EXCEPT ![procs[p].po].deleted = TRUE]
                        /\ payments' = payments
          /\ \A id \in DOMAIN pos :
               /\ Committed(id) => id \in DOMAIN pos'
               /\ (id \in DOMAIN pos' /\ pos'[id].deleted # pos[id].deleted)
                     => \E p \in Procs : /\ procs[p].pc = "remove_save"
                                         /\ procs[p].po = id
                                         /\ procs'[p].pc = "idle"]_vars

\* C30 witness: a purchase order with nothing paid has been removed: its
\* row is still there, marked deleted and no longer visible.
C30_Witness ==
    \E id \in DOMAIN pos :
        /\ pos[id].deleted
        /\ ~Visible(id)
        /\ pos[id].paidAmount = 0
        /\ removeRefusal(id) = "PoNotFound"

\* C31: once a purchase order is PAID or CANCELLED, update() refuses every
\* body that carries a field other than notes (status included) and a
\* refused call writes nothing; a body carrying only notes is accepted and
\* its save changes the notes and nothing else.
C31_ImmutableAfterTerminal ==
    /\ [](\A id \in PoIds, dto \in UpdateDtos :
            (Visible(id) /\ pos[id].status \in {PAID, CANCELLED}) =>
                /\ OtherThanNotes(dto) => updateRefusal(id, dto) # OK
                /\ ~OtherThanNotes(dto) => updateRefusal(id, dto) = OK)
    /\ [][\A p \in Procs :
            /\ (/\ procs[p].pc = "idle"
                /\ procs'[p].pc = "update_save"
                /\ pos[procs'[p].po].status \in {PAID, CANCELLED})
                  => /\ procs'[p].snap =
                            [pos[procs'[p].po] EXCEPT !.notes = procs'[p].snap.notes]
                     /\ pos' = pos
                     /\ payments' = payments
            /\ (/\ procs[p].pc = "update_save"
                /\ procs'[p].pc = "idle"
                /\ pos[procs[p].po].status \in {PAID, CANCELLED})
                  => /\ \/ pos' = pos
                        \/ pos' = [pos EXCEPT ![procs[p].po].notes = procs[p].snap.notes]
                     /\ payments' = payments]_vars

\* C31 witness: an update carrying only notes has been accepted on a PAID
\* or CANCELLED purchase order that had no notes, and is about to save them.
C31_Witness ==
    \E p \in Procs :
        /\ procs[p].pc = "update_save"
        /\ pos[procs[p].po].status \in {PAID, CANCELLED}
        /\ pos[procs[p].po].notes = Absent
        /\ procs[p].snap.notes = "note"

\* C32: create() answers VendorNotFound for a vendor that does not exist
\* and VendorInactive for one that is not active; a refused call starts no
\* transaction, reads no number and writes no row, so every create under
\* way and every row inserted is for an active vendor, and starting a
\* create changes no row.
C32_VendorRefusal ==
    /\ [](\A dto \in CreateDtos :
            /\ dto.vendorId \notin DOMAIN Vendors
                  => createRefusal(dto) = "VendorNotFound"
            /\ (dto.vendorId \in DOMAIN Vendors
                    /\ Vendors[dto.vendorId].status # ACTIVE)
                  => createRefusal(dto) = "VendorInactive")
    /\ [](\A p \in Procs :
            procs[p].pc \in {"create_number", "create_save"}
                => /\ procs[p].arg.vendorId \in DOMAIN Vendors
                   /\ Vendors[procs[p].arg.vendorId].status = ACTIVE)
    /\ [][/\ \A p \in Procs :
               (procs[p].pc = "idle" /\ procs'[p].pc = "create_number")
                   => pos' = pos /\ payments' = payments
          /\ DOMAIN pos' # DOMAIN pos
               => \E p \in Procs :
                     /\ procs[p].pc = "create_save"
                     /\ procs'[p].pc = "create_commit"
                     /\ Vendors[procs[p].arg.vendorId].status = ACTIVE
                     /\ DOMAIN pos' = DOMAIN pos \cup {procs'[p].po}]_vars

\* C32 witness: with one purchase order committed today, a caller is free
\* to send a body for the inactive vendor and one for a vendor that does
\* not exist; the answers are the two refusals and the next number is still
\* the second of the day.
C32_Witness ==
    \E p \in Procs, inactive, missing \in CreateDtos :
        /\ IsIdle(p)
        /\ \E id \in PoIds : Visible(id) /\ pos[id].poNumber = <<DayOf(now), 1>>
        /\ createRefusal(inactive) = "VendorInactive"
        /\ createRefusal(missing) = "VendorNotFound"
        /\ generatePoNumber = <<DayOf(now), 2>>

\* C33: a purchase order committed by create() is PENDING with nothing
\* paid and outstandingAmount = totalAmount, and is committed with every
\* line that was submitted; a failure after the purchase order row was
\* saved, before or between the saves of its lines, takes the row and the
\* lines saved so far away again, so the committed rows always carry the
\* lines their totals were computed from.
C33_CreateAllOrNothing ==
    /\ [](\A id \in DOMAIN pos :
            Committed(id) =>
                /\ pos[id].status = PENDING
                /\ pos[id].paidAmount = 0
                /\ pos[id].outstandingAmount = pos[id].totalAmount
                /\ pos[id].items # {}
                /\ pos[id].totalAmount =
                       toFixed2(SumSubtotal(pos[id].items)
                                  - toFixed2(SumDiscount(pos[id].items)) * Scale
                                  + toFixed2(SumTax(pos[id].items)) * Scale))
    /\ [][\A p \in Procs :
            (procs[p].pc \in {"create_items", "create_commit"}
                    /\ procs'[p].pc = "idle")
                => \/ /\ procs[p].pc = "create_commit"
                      /\ pos[procs[p].po].items = ItemRows(procs[p].arg.items)
                      /\ pos' = [pos EXCEPT ![procs[p].po].tx = 0]
                   \/ /\ DOMAIN pos' = DOMAIN pos \ {procs[p].po}
                      /\ \A id \in DOMAIN pos' : pos'[id] = pos[id]]_vars

\* C33 witness: one purchase order of two lines is committed, and a second
\* create has saved its purchase order row and the first of its two lines:
\* the place where a failing save of the second line finds something to
\* roll back.
C33_Witness ==
    \E p \in Procs, id \in DOMAIN pos :
        /\ Committed(id)
        /\ Cardinality(pos[id].items) = 2
        /\ procs[p].pc = "create_items"
        /\ pos[procs[p].po].tx = p
        /\ Cardinality(pos[procs[p].po].items) = 1
        /\ Len(procs[p].arg.items) = 2

\* C34: whenever no request is under way, the paidAmount of every purchase
\* order is the sum of the amounts of its COMPLETED payments, however the
\* payments and voids on it were interleaved.
C34_LedgerConsistency ==
    (\A p \in Procs : procs[p].pc = "idle")
        => \A id \in DOMAIN pos :
              Visible(id) => pos[id].paidAmount = CompletedPaid(id)

\* C35: a purchase order whose status is PAID has outstandingAmount = 0 and
\* paidAmount = totalAmount, whether a payment or a status edit made it
\* PAID.
C35_PaidIsSettled ==
    \A id \in DOMAIN pos :
        (Visible(id) /\ pos[id].status = PAID)
            => /\ pos[id].outstandingAmount = 0
               /\ pos[id].paidAmount = pos[id].totalAmount

\* C36: with requests served one at a time, a PENDING or APPROVED purchase
\* order has paidAmount = 0, and no recalculation after an item mutation
\* writes a negative outstandingAmount.
C36_OpenMeansUnpaid ==
    /\ [](\A id \in DOMAIN pos :
            (Visible(id) /\ pos[id].status \in {PENDING, APPROVED})
                => pos[id].paidAmount = 0)
    /\ [][\A p \in Procs :
            (procs[p].pc = "recalc_write" /\ procs'[p].pc = "idle")
                => pos'[procs[p].po].outstandingAmount >= 0]_vars

\* C37: a payment is accepted only against a purchase order whose status
\* is, or has earlier been, APPROVED.  Where no request approves, the
\* status has been APPROVED only if a void put it back there, and a void
\* needs a payment of that purchase order: so a payment call that is
\* accepted finds the status APPROVED or a payment of the purchase order
\* on file.
C37_PaidOnlyAfterApproval ==
    [][\A p \in Procs :
        (procs[p].pc = "idle" /\ procs'[p].pc = "pay_reference")
            => \/ pos[procs'[p].po].status = APPROVED
               \/ \E i \in DOMAIN payments : payments[i].po = procs'[p].po]_vars

\* C38: of two concurrent voids of the same COMPLETED payment at most one
\* goes through: a void reverses the amount on the purchase order and
\* commits only for a payment that is still COMPLETED, so the amount is
\* taken off paidAmount once.
C38_VoidedOnce ==
    [][\A p \in Procs :
        /\ (procs[p].pc = "void_write" /\ procs'[p].pc = "void_commit")
              => \/ payments[procs[p].pay].status = COMPLETED
                 \/ pos'[procs[p].po].paidAmount = pos[procs[p].po].paidAmount
        /\ (/\ procs[p].pc = "void_commit"
            /\ procs'[p].pc = "idle"
            /\ payments'[procs[p].pay].lock = 0
            /\ payments'[procs[p].pay].status = VOIDED)
              => payments[procs[p].pay].status = COMPLETED]_vars

\* C39: the number generatePoNumber hands to a create() is the number of
\* no committed purchase order row, soft-deleted rows included, and the
\* insert that follows goes through.
C39_NumbersNeverReused ==
    [][\A p \in Procs :
        /\ (procs[p].pc = "create_number" /\ procs'[p].pc = "create_save")
              => \A i \in DOMAIN pos :
                    pos[i].tx = 0 => pos[i].poNumber # procs'[p].ref
        /\ (procs[p].pc = "create_save" /\ procs'[p].pc # "create_save")
              => procs'[p].pc = "create_commit"]_vars

\* C40: when the sweep keeps being run, every committed purchase order
\* that is past due with outstandingAmount > 0 and status PENDING, APPROVED
\* or PARTIALLY_PAID is later OVERDUE, PAID or CANCELLED; so a past-due
\* purchase order that a partial payment or a partial void made
\* PARTIALLY_PAID is marked OVERDUE again.
C40_SweepCatchesUp ==
    \A id \in PoIds :
        (/\ Committed(id)
         /\ pos[id].dueDate < now
         /\ pos[id].outstandingAmount > 0
         /\ pos[id].status \in {PENDING, APPROVED, PARTIALLY_PAID})
            ~> (Committed(id) /\ pos[id].status \in {OVERDUE, PAID, CANCELLED})

====
